---- MODULE Spec2Model ----
(***************************************************************************)
(* LeekWarsBot (src/leekwars_bot.py): the API session client (login,       *)
(* make_api_call) and the fight loop (auto_fight_session) as one           *)
(* sequential state machine.  The program is single-threaded; its          *)
(* suspension points are the HTTP requests and the timed waits.  One       *)
(* action is one HTTP exchange, or the code between two of them.           *)
(* The server is the environment: every response is drawn with \E.         *)
(* The clock `now` is time.time() in seconds, counted from the program's   *)
(* first reading of it (line 356); it advances in time.sleep only (a       *)
(* request takes no clock time).                                           *)
(***************************************************************************)
EXTENDS Integers, Sequences, FiniteSets, TLC

\* ------------------------------------------------------------------ bounds
\* Depth at which the interpreter stops the recursion of make_api_call with a
\* RecursionError (sys.getrecursionlimit() frames in CPython, scaled down).
RecursionLimit == 2
\* max_wait of wait_for_fight_end (default 300 s), scaled down.
MaxWait == 10
\* delay_between_fights (an input of auto_fight_session, default 60 s).
DelayBetweenFights == 20
\* Longest opponent list the server sends.
MaxOpps == 3

\* ------------------------------------------------------- program constants
ReloginDelay == 2
RateLimitCooldown == 15
PollInterval == 5
FailedStartDelay == 30
SecondsPerMinute == 60
DefaultTalent == 999999
DefaultLeek == 34872

\* ------------------------------------------------------------ input domains
\* duration_minutes of auto_fight_session
Durations == {0, 1}
\* talent of an opponent; NoTalent: the opponent dict has no 'talent' key
NoTalent == -1
Talents == {10, 30, 50, NoTalent}
\* 'winner' of a fight; NoWinner: the fight dict has no 'winner' key
NoWinner == -1
Winners == {NoWinner, 0, 1, 2}
\* 'status' of a fight: strings, the integers 1 and 2, an unrecognized
\* value, or no 'status' key
Statuses == {"finished", "end", "int2", "running", "progress", "int1", "unknown", "missing"}
\* fight identifiers the server assigns
FightIds == {7}
\* farmer dicts: F1 carries a non-empty 'leeks' mapping, F0 carries none
Farmers == {"F0", "F1"}
ErrorCodes == {"error_fight_target_not_in_garden", "wrong_token", "other_error"}
\* Python None where an identifier is expected
NoId == -1

VARIABLES
    pc,              \* position in auto_fight_session
    now,             \* time.time()
    duration_minutes,\* parameter of auto_fight_session
    php_session_id,  \* self.php_session_id: "None" or "sid"
    jar,             \* self.session.cookies holds a PHPSESSID cookie
    cookies,         \* self.cookies: "dict" (the initial {}) or "jar" (session.cookies)
    farmer_info,     \* self.farmer_info: "{}" or a farmer
    farmer_leeks,    \* self.farmer_leeks: "None" or the farmer whose leeks it is
    api,             \* the make_api_call invocation in progress
    leek_id,         \* chosen_leek
    end_time,        \* end_time of the session
    fight_count,
    victories,
    fight_id,        \* fight_id of the iteration
    start_time,      \* start_time of wait_for_fight_end (0 outside of it)
    fight_result,    \* what wait_for_fight_end returned
    report,          \* the final statistics, once logged
    last_login,      \* history: the last login() call since the program moved on:
                     \* whether its response was read, and what it returned
    hist,            \* history: what the server was asked and what it answered
    farmer_opponents \* what get_garden_farmer_opponents returned ("None" before)

vars == <<pc, now, duration_minutes, php_session_id, jar, cookies, farmer_info,
          farmer_leeks, api, leek_id, end_time, fight_count, victories, fight_id,
          start_time, fight_result, report, last_login, hist, farmer_opponents>>

\* ---------------------------------------------------------------- JSON bodies
\* A parsed response body, or None.  kind names the key the dict carries:
\*   "None"      no result           "empty"     {}
\*   "farmer"    {'farmer': f}       "name"      {'name': ...}
\*   "opponents" {'opponents': l}    "leeks"     {'leeks': l}
\*   "fight_id"  {'fight': id}       "fight"     {'fight': {status?, winner?}}
\*   "info"      {status?, winner?}  "error"     {'error': code}
EmptyBody ==
    [kind |-> "empty", farmer |-> "none", list |-> <<>>, fight |-> NoId,
     status |-> "missing", winner |-> NoWinner, error |-> "none"]

None == [EmptyBody EXCEPT !.kind = "None"]

\* bool(x) of a result
Truthy(b) == b.kind \notin {"None", "empty"}

\* key in result
HasKey(b, key) ==
    CASE key = "farmer"    -> b.kind = "farmer"
      [] key = "name"      -> b.kind = "name"
      [] key = "opponents" -> b.kind = "opponents"
      [] key = "leeks"     -> b.kind = "leeks"
      [] key = "fight"     -> b.kind \in {"fight_id", "fight"}
      [] key = "error"     -> b.kind = "error"
      [] key = "status"    -> b.kind = "info" /\ b.status # "missing"
      [] key = "winner"    -> b.kind = "info" /\ b.winner # NoWinner
      [] OTHER             -> FALSE

\* Opponent lists: opponent i of the list has id i and the talent given
OpponentsOf(ts) == [i \in 1..Len(ts) |-> [id |-> i, talent |-> ts[i]]]

RECURSIVE SeqsUpTo(_, _)
SeqsUpTo(S, n) ==
    IF n = 0 THEN {<<>>}
    ELSE LET shorter == SeqsUpTo(S, n - 1)
         IN  shorter \cup {Append(q, x) : q \in {r \in shorter : Len(r) = n - 1}, x \in S}

OpponentLists == {OpponentsOf(ts) : ts \in SeqsUpTo(Talents, MaxOpps)}

\* ------------------------------------------------------------ the server
\* Bodies the server may put in a 200 response, by endpoint
ErrorBodies == {[EmptyBody EXCEPT !.kind = "error", !.error = e] : e \in ErrorCodes}

FarmerBodies == {[EmptyBody EXCEPT !.kind = "farmer", !.farmer = f] : f \in Farmers}

\* a fight that is finished may name its winner, another names none
FightInfoBodies ==
    {[EmptyBody EXCEPT !.kind = k, !.status = s, !.winner = w] :
        k \in {"fight", "info"}, s \in {"finished", "end", "int2"}, w \in Winners}
    \cup {[EmptyBody EXCEPT !.kind = k, !.status = s] :
        k \in {"fight", "info"}, s \in Statuses}

BodiesFor(path) ==
    {EmptyBody} \cup ErrorBodies \cup
    CASE path = "farmer/login-token"        -> FarmerBodies
      [] path = "farmer/get-from-token"     -> FarmerBodies
      [] path = "leek/get"                  -> {[EmptyBody EXCEPT !.kind = "name"]}
      [] path = "garden/get-farmer-opponents" ->
            {[EmptyBody EXCEPT !.kind = k, !.list = l] :
                k \in {"opponents", "leeks"}, l \in OpponentLists}
      [] path = "garden/get-leek-opponents" ->
            {[EmptyBody EXCEPT !.kind = k, !.list = l] :
                k \in {"opponents", "leeks"}, l \in OpponentLists}
      [] path = "garden/start-solo-fight"   ->
            {[EmptyBody EXCEPT !.kind = "fight_id", !.fight = f] : f \in FightIds}
      [] path = "fight/get"                 -> FightInfoBodies
      [] OTHER                              -> {}

\* What comes back from one HTTP request: a transport exception, or a
\* response with a status code, a body that parses as JSON or does not, and
\* Set-Cookie headers that set, delete or leave alone the PHPSESSID cookie
\* of the session's cookie jar.
Statuscodes == {200, 401, 429, 500}

Responses(path, setcookies) ==
    {[exc |-> TRUE, status |-> 0, json |-> FALSE, body |-> None, setcookie |-> "keep"]}
    \cup {[exc |-> FALSE, status |-> 200, json |-> TRUE, body |-> b, setcookie |-> c] :
            b \in BodiesFor(path), c \in setcookies}
    \cup {[exc |-> FALSE, status |-> s, json |-> FALSE, body |-> None, setcookie |-> c] :
            s \in Statuscodes, c \in setcookies}

\* the cookie jar after a response
JarAfter(resp) ==
    CASE resp.setcookie = "set"   -> TRUE
      [] resp.setcookie = "clear" -> FALSE
      [] OTHER                    -> jar

\* -------------------------------------------------------------------- login
\* login(), lines 43-115, on the response resp of farmer/login-token.
\* The response is read only when it is a 200 whose body parses as JSON.
LoginRead(resp) == ~resp.exc /\ resp.status = 200 /\ resp.json

\* a login that forgets the farmer when its response carries none
LoginFarmerInfoOrEmpty(resp) ==
    IF LoginRead(resp) /\ HasKey(resp.body, "farmer") THEN resp.body.farmer ELSE "{}"

\* lines 73-75: self.farmer_info is replaced when the body has a 'farmer' key
LoginFarmerInfo(resp) ==
    IF LoginRead(resp) /\ HasKey(resp.body, "farmer") THEN resp.body.farmer ELSE farmer_info

\* lines 81-86: self.php_session_id is assigned only inside the loop over the
\* jar's cookies, when one of them is named PHPSESSID; nothing resets it
LoginSessionId(resp) ==
    IF LoginRead(resp) /\ JarAfter(resp) THEN "sid" ELSE php_session_id

\* lines 97-115: the value login() returns
LoginReturns(resp) == LoginRead(resp) /\ LoginSessionId(resp) # "None"

\* line 99
LoginCookies(resp) == IF LoginReturns(resp) THEN "jar" ELSE cookies

NoLogin == [called |-> FALSE, read |-> FALSE, ret |-> FALSE]

\* the effect of one login() call on the client's state
LoginEffect(resp) ==
    /\ jar' = JarAfter(resp)
    /\ farmer_info' = LoginFarmerInfo(resp)
    /\ php_session_id' = LoginSessionId(resp)
    /\ cookies' = LoginCookies(resp)
    /\ last_login' = [called |-> TRUE, read |-> LoginRead(resp), ret |-> LoginReturns(resp)]

\* ------------------------------------------------------------ make_api_call
\* resp is, for the properties only, the answer to the invocation's last request
NoResp == [exc |-> FALSE, status |-> 0, json |-> FALSE, body |-> None, setcookie |-> "keep"]

Idle == [state |-> "idle", path |-> "", id |-> NoId, params |-> {}, method |-> "",
         verb |-> "", depth |-> 0, reqs |-> 0, logins |-> 0, result |-> None,
         resp |-> NoResp]

\* lines 126-137: POST when method.upper() is 'POST', GET for anything else
Verb(method) == IF method \in {"POST", "post"} THEN "POST" ELSE "GET"

\* a fresh invocation make_api_call(endpoint, params, method); the endpoint
\* is path, or path/id; verb is the HTTP method of its requests
NewCall(path, id, params, method) ==
    [state |-> "request", path |-> path, id |-> id, params |-> params, method |-> method,
     verb |-> Verb(method), depth |-> 0, reqs |-> 0, logins |-> 0, result |-> None,
     resp |-> NoResp]

\* an invocation that also logs in again when the rate limit is hit
ApiRetriesOnRateLimit(resp) == resp.exc \/ resp.status \notin {401, 429}

\* an invocation that also logs in again on a server error
ApiRetriesOnServerError(resp) == resp.exc \/ resp.status \notin {401, 500}

\* lines 142-168: what the invocation does with the response: "return" a
\* result, or "relogin"
ApiReturnsOn(resp) == resp.exc \/ resp.status # 401

ApiResultOn(resp) ==
    IF ~resp.exc /\ resp.status = 200 /\ resp.json THEN resp.body ELSE None

\* a cooldown that is also applied before the re-login
ApiWaitOnUnauthorized(resp) ==
    IF ~resp.exc /\ resp.status \in {401, 429} THEN RateLimitCooldown ELSE 0

\* lines 157-160: the cooldown of a 429
ApiWaitOn(resp) ==
    IF ~resp.exc /\ resp.status = 429 THEN RateLimitCooldown ELSE 0

\* a retry that does not depend on the outcome of the re-login
RetriesAlways(logged_in) == TRUE

\* line 151: if self.login()
RetriesAfter(logged_in) == logged_in

\* line 154: the recursive call; beyond the interpreter's recursion limit it
\* raises RecursionError, which the except of line 166 turns into None
CanRecurse(depth) == depth < RecursionLimit

\* One HTTP request of the invocation and the handling of its response
\* (lines 125-168, but for the re-login of line 151)
ApiRequest ==
    /\ api.state = "request"
    /\ \E resp \in Responses(api.path, {"keep"}) :
        /\ api' = [api EXCEPT
                     !.reqs = @ + 1,
                     !.state = IF ApiReturnsOn(resp) THEN "returned" ELSE "relogin",
                     !.result = ApiResultOn(resp),
                     !.resp = resp]
        /\ now' = now + ApiWaitOn(resp)
    /\ hist' = [hist EXCEPT !.offered = <<>>]
    /\ UNCHANGED farmer_opponents
    /\ UNCHANGED <<pc, duration_minutes, php_session_id, jar, cookies, farmer_info,
                   farmer_leeks, leek_id, end_time, fight_count, victories, fight_id,
                   start_time, fight_result, report, last_login>>

\* lines 149-155: after a 401, login(); when it succeeds, sleep and call
\* make_api_call again, otherwise return None
ApiRelogin ==
    /\ api.state = "relogin"
    /\ \E resp \in Responses("farmer/login-token", {"keep", "set", "clear"}) :
        /\ LoginEffect(resp)
        /\ hist' = IF pc \in {"opponents", "start_fight"} /\ RetriesAfter(LoginReturns(resp))
                   THEN [hist EXCEPT !.retries = @ + 1]
                   ELSE hist
        /\ IF RetriesAfter(LoginReturns(resp))
           THEN /\ now' = now + ReloginDelay
                /\ api' = IF CanRecurse(api.depth)
                          THEN [api EXCEPT !.logins = @ + 1, !.depth = @ + 1,
                                           !.state = "request"]
                          ELSE [api EXCEPT !.logins = @ + 1, !.state = "returned",
                                           !.result = None]
           ELSE /\ now' = now
                /\ api' = [api EXCEPT !.logins = @ + 1, !.state = "returned",
                                      !.result = None]
    /\ UNCHANGED farmer_opponents
    /\ UNCHANGED <<pc, duration_minutes, farmer_leeks, leek_id, end_time, fight_count,
                   victories, fight_id, start_time, fight_result, report>>

\* ------------------------------------------------------- the fight loop's helpers
\* a session that goes on without any leek
HasLeeksAlways(f) == TRUE

\* get_leeks, lines 205-212: the farmer's leeks, as a list
HasLeeks(f) == f = "F1"

\* get_garden_leek_opponents, lines 228-232
OpponentsIn(result) ==
    IF Truthy(result) /\ HasKey(result, "opponents") THEN result.list
    ELSE IF Truthy(result) /\ HasKey(result, "leeks") THEN result.list
    ELSE <<>>

\* line 368: key=lambda o: o.get('talent', 999999)
TalentKey(o) == IF o.talent = NoTalent THEN DefaultTalent ELSE o.talent

\* a scan that keeps the last of the smallest keys
SmallerOrEqual(a, b) == a <= b

\* min(opponents, key=...): the scan keeps the first of the smallest keys
Smaller(a, b) == a < b

RECURSIVE MinIndex(_, _, _)
MinIndex(opps, i, best) ==
    IF i > Len(opps) THEN best
    ELSE MinIndex(opps, i + 1,
                  IF Smaller(TalentKey(opps[i]), TalentKey(opps[best])) THEN i ELSE best)

\* line 368
Weakest(opps) == opps[MinIndex(opps, 2, 1)]

\* a start_garden_fight that looks for the identifier under another key
FightIdInWrongKey(result) ==
    IF Truthy(result) /\ HasKey(result, "fight_id") THEN result.fight ELSE NoId

\* start_garden_fight, lines 272-285: the fight id, or None
FightIdIn(result) ==
    IF Truthy(result) /\ HasKey(result, "fight") THEN result.fight ELSE NoId

\* the test of line 378 inverted
FightIdFalsy(f) == ~(f # NoId /\ f # 0)

\* line 378: if fight_id
FightIdTruthy(f) == f # NoId /\ f # 0

\* a wait_for_fight_end whose loop never gives up
InsideAnyWait(since, t) == TRUE

\* line 299: time.time() - start_time < max_wait
InsideMaxWait(since, t) == t - since < MaxWait

\* get_fight_result, lines 291-293: the dict under 'fight', or the result itself
FightInfoIn(result) ==
    IF Truthy(result) /\ HasKey(result, "fight") THEN [result EXCEPT !.kind = "info"]
    ELSE result

\* line 303: fight_info.get('status', '')
StatusOf(info) == IF info.kind = "info" THEN info.status ELSE "missing"

\* line 305 taking a fight that runs for a finished one
IsFinishedOrRunning(status) == status \in {"finished", "end", "int2", "running", "int1"}

\* line 305
IsFinished(status) == status \in {"finished", "end", "int2"}

\* line 383: fight_result.get('winner', 0)
WinnerOf(info) == IF info.kind = "info" /\ info.winner # NoWinner THEN info.winner ELSE 0

\* line 384 taking every winner but 0 for the bot's leek
IsVictoryUnlessZero(winner) == winner # 0

\* line 384
IsVictory(winner) == winner = 1

\* line 382 counting a wait that timed out as a fight
IsCountedAlways(result) == TRUE

\* line 382: if fight_result
IsCounted(result) == Truthy(result)

\* a loop test that lets the iteration at the very end of the session run
BeforeOrAtEnd(t) == t <= end_time

\* lines 360 and 399: time.time() < end_time
BeforeEnd(t) == t < end_time

\* a delay between fights that is never skipped
DelayAlways(t) == DelayBetweenFights

\* lines 399-401: the delay between fights, skipped at the end of the session
DelayFrom(t) == IF BeforeEnd(t) THEN DelayBetweenFights ELSE 0

\* line 411: f"{win_rate:.1f}" of (victories / fight_count) * 100, in tenths
\* of a percent: the nearest tenth, the even one when two are as near
WinRateTenths(v, n) ==
    LET q == (v * 1000) \div n
        r == (v * 1000) % n
    IN  IF 2 * r > n \/ (2 * r = n /\ q % 2 = 1) THEN q + 1 ELSE q

NoRate == -1

\* --------------------------------------------------------------------- Init
\* A freshly constructed LeekWarsBot (lines 8-21) on which
\* auto_fight_session(duration_minutes, DelayBetweenFights) is called.
\* hist records, for the properties only: the fights for which the server
\* returned an identifier (attempted), those it reported finished to a poll
\* (completed, with in results whether its winner field was 1), those
\* started and neither seen finished nor timed out (unresolved), and from
\* the start of a wait_for_fight_end until its result is consumed the polls
\* it made and whether one was answered finished.
\* offered is the opponent list of the iteration, from its receipt until the
\* start-fight request is sent.
\* startup lists the startup steps that succeeded, as they succeed: "login"
\* when login() returned True, "api" when farmer/get-from-token answered with
\* a farmer key, "leeks" when the farmer has a leek.
\* checked is the clock value at which the loop's test passed for the
\* iteration and retries the successful re-logins since, both from the test
\* until the start-fight call has returned.
NoHist == [attempted |-> 0, completed |-> 0, unresolved |-> 0, polls |-> 0,
           seenEnd |-> FALSE, results |-> <<>>, offered |-> <<>>,
           startup |-> <<>>, checked |-> 0, retries |-> 0]

NoReport == [logged |-> FALSE, fights |-> 0, victories |-> 0, defeats |-> 0, rate |-> NoRate]

Init ==
    /\ pc = "login"
    /\ now = 0
    /\ duration_minutes \in Durations
    /\ php_session_id = "None"
    /\ jar = FALSE
    /\ cookies = "dict"
    /\ farmer_info = "{}"
    /\ farmer_leeks = "None"
    /\ api = Idle
    /\ leek_id = NoId
    /\ end_time = 0
    /\ fight_count = 0
    /\ victories = 0
    /\ fight_id = NoId
    /\ start_time = 0
    /\ fight_result = None
    /\ report = NoReport
    /\ last_login = NoLogin
    /\ hist = NoHist
    /\ farmer_opponents = "None"

\* ------------------------------------------------------- auto_fight_session
\* lines 319-324: login(); on success test_api_access() makes its call
SessionLogin ==
    /\ pc = "login"
    /\ \E resp \in Responses("farmer/login-token", {"keep", "set", "clear"}) :
        /\ LoginEffect(resp)
        /\ IF LoginReturns(resp)
           THEN /\ pc' = "test_api"
                /\ api' = NewCall("farmer/get-from-token", NoId, {}, "GET")
           ELSE /\ pc' = "failed"
                /\ api' = api
        /\ hist' = IF LoginReturns(resp) THEN [hist EXCEPT !.startup = Append(@, "login")]
                   ELSE hist
    /\ UNCHANGED farmer_opponents
    /\ UNCHANGED <<now, duration_minutes, farmer_leeks, leek_id, end_time, fight_count,
                   victories, fight_id, start_time, fight_result, report>>

\* lines 176-186 and 324-351: test_api_access() returns; get_leeks(); the
\* leek is chosen (the default of line 342); get_leek_name() makes its call
TestApiAccess ==
    /\ pc = "test_api"
    /\ api.state = "returned"
    /\ last_login' = NoLogin
    /\ IF Truthy(api.result) /\ HasKey(api.result, "farmer")
       THEN IF HasLeeks(farmer_info)
            THEN /\ farmer_leeks' = farmer_info
                 /\ leek_id' = DefaultLeek
                 /\ api' = NewCall("leek/get", DefaultLeek, {}, "GET")
                 /\ pc' = "leek_name"
            ELSE /\ pc' = "failed"
                 /\ api' = Idle
                 /\ UNCHANGED <<farmer_leeks, leek_id>>
       ELSE /\ pc' = "failed"
            /\ api' = Idle
            /\ UNCHANGED <<farmer_leeks, leek_id>>
    /\ hist' = [hist EXCEPT !.startup =
                    @ \o (IF api.result.kind = "farmer" THEN <<"api">> ELSE <<>>)
                      \o (IF api.result.kind = "farmer" /\ farmer_info = "F1"
                          THEN <<"leeks">> ELSE <<>>)]
    /\ UNCHANGED farmer_opponents
    /\ UNCHANGED <<now, duration_minutes, php_session_id, jar, cookies, farmer_info,
                   end_time, fight_count, victories, fight_id, start_time,
                   fight_result, report>>

\* lines 351-358: get_leek_name() returns; the clock is read for the first
\* time and the session's end is fixed
GetLeekName ==
    /\ pc = "leek_name"
    /\ api.state = "returned"
    /\ api' = Idle
    /\ last_login' = NoLogin
    /\ now' = 0
    /\ end_time' = now' + duration_minutes * SecondsPerMinute
    /\ fight_count' = 0
    /\ victories' = 0
    /\ pc' = "loop"
    /\ UNCHANGED farmer_opponents
    /\ UNCHANGED <<duration_minutes, php_session_id, jar, cookies, farmer_info,
                   farmer_leeks, leek_id, fight_id, start_time, fight_result, report, hist>>

\* lines 360-364: the loop's test passes; get_garden_leek_opponents() makes
\* its call
LoopIteration ==
    /\ pc = "loop"
    /\ BeforeEnd(now)
    /\ api' = NewCall("garden/get-leek-opponents", leek_id, {}, "GET")
    /\ pc' = "opponents"
    /\ hist' = [hist EXCEPT !.checked = now, !.retries = 0]
    /\ UNCHANGED farmer_opponents
    /\ UNCHANGED <<now, duration_minutes, php_session_id, jar, cookies, farmer_info,
                   farmer_leeks, leek_id, end_time, fight_count, victories, fight_id,
                   start_time, fight_result, report, last_login>>

\* lines 228-232 and 365-376: the opponents are returned; with opponents the
\* weakest is the target and start_garden_fight() makes its call; without,
\* start_garden_fight(leek_id) lacks its second positional argument and
\* raises TypeError, which nothing catches
GetGardenLeekOpponents ==
    /\ pc = "opponents"
    /\ api.state = "returned"
    /\ last_login' = NoLogin
    /\ LET opponents == OpponentsIn(api.result)
       IN  IF opponents # <<>>
           THEN /\ api' = NewCall("garden/start-solo-fight", NoId,
                                  {<<"leek_id", leek_id>>,
                                   <<"target_id", Weakest(opponents).id>>}, "POST")
                /\ pc' = "start_fight"
           ELSE /\ api' = Idle
                /\ pc' = "raised"
    /\ hist' = IF api.result.kind \in {"opponents", "leeks"} /\ api.result.list # <<>>
               THEN [hist EXCEPT !.offered = api.result.list]
               ELSE [hist EXCEPT !.offered = <<>>, !.checked = 0, !.retries = 0]
    /\ UNCHANGED farmer_opponents
    /\ UNCHANGED <<now, duration_minutes, php_session_id, jar, cookies, farmer_info,
                   farmer_leeks, leek_id, end_time, fight_count, victories, fight_id,
                   start_time, fight_result, report>>

\* lines 272-285 and 378-401: start_garden_fight() returns; with a fight id
\* wait_for_fight_end() begins, without one the loop waits and goes round
StartGardenFight ==
    /\ pc = "start_fight"
    /\ api.state = "returned"
    /\ api' = Idle
    /\ last_login' = NoLogin
    /\ hist' = IF api.result.kind = "fight_id"
               THEN [hist EXCEPT !.attempted = @ + 1, !.unresolved = @ + 1,
                                 !.checked = 0, !.retries = 0]
               ELSE [hist EXCEPT !.checked = 0, !.retries = 0]
    /\ IF FightIdTruthy(FightIdIn(api.result))
       THEN /\ fight_id' = FightIdIn(api.result)
            /\ start_time' = now
            /\ now' = now
            /\ pc' = "wait"
       ELSE /\ now' = now + FailedStartDelay + DelayFrom(now + FailedStartDelay)
            /\ pc' = "loop"
            /\ fight_id' = FightIdIn(api.result)
            /\ UNCHANGED start_time
    /\ UNCHANGED farmer_opponents
    /\ UNCHANGED <<duration_minutes, php_session_id, jar, cookies, farmer_info,
                   farmer_leeks, leek_id, end_time, fight_count, victories,
                   fight_result, report>>

\* lines 299-300 and 314-315: the test of wait_for_fight_end's loop; inside
\* max_wait get_fight_result() makes its call, past it the wait returns None
WaitForFightEnd ==
    /\ pc = "wait"
    /\ IF InsideMaxWait(start_time, now)
       THEN /\ api' = NewCall("fight/get", fight_id, {}, "GOT")
            /\ pc' = "poll"
            /\ UNCHANGED <<fight_result, hist, start_time>>
       ELSE /\ fight_result' = None
            /\ hist' = [hist EXCEPT !.unresolved = 0]
            /\ pc' = "record"
            /\ start_time' = 0
            /\ api' = api
    /\ UNCHANGED farmer_opponents
    /\ UNCHANGED <<now, duration_minutes, php_session_id, jar, cookies, farmer_info,
                   farmer_leeks, leek_id, end_time, fight_count, victories, fight_id,
                   report, last_login>>

\* lines 291-293 and 302-312: get_fight_result() returns; a finished fight
\* is what the wait returns, anything else is followed by the poll interval
GetFightResult ==
    /\ pc = "poll"
    /\ api.state = "returned"
    /\ api' = Idle
    /\ last_login' = NoLogin
    /\ hist' = IF api.result.kind \in {"fight", "info"}
                  /\ api.result.status \in {"finished", "end", "int2"}
               THEN [hist EXCEPT !.polls = @ + 1, !.seenEnd = TRUE, !.unresolved = 0,
                                 !.completed = @ + 1,
                                 !.results = Append(@, api.result.winner = 1)]
               ELSE [hist EXCEPT !.polls = @ + 1]
    /\ LET fight_info == FightInfoIn(api.result)
       IN  IF Truthy(fight_info) /\ IsFinished(StatusOf(fight_info))
           THEN /\ fight_result' = fight_info
                /\ now' = now
                /\ pc' = "record"
                /\ start_time' = 0
           ELSE /\ now' = now + PollInterval
                /\ pc' = "wait"
                /\ UNCHANGED <<fight_result, start_time>>
    /\ UNCHANGED farmer_opponents
    /\ UNCHANGED <<duration_minutes, php_session_id, jar, cookies, farmer_info,
                   farmer_leeks, leek_id, end_time, fight_count, victories, fight_id,
                   report>>

\* lines 382-392 and 398-401: the outcome is counted, and the loop waits
\* before it goes round
RecordOutcome ==
    /\ pc = "record"
    /\ IF IsCounted(fight_result)
       THEN /\ victories' = IF IsVictory(WinnerOf(fight_result)) THEN victories + 1
                            ELSE victories
            /\ fight_count' = fight_count + 1
       ELSE UNCHANGED <<victories, fight_count>>
    /\ fight_result' = None
    /\ hist' = [hist EXCEPT !.polls = 0, !.seenEnd = FALSE]
    /\ now' = now + DelayFrom(now)
    /\ pc' = "loop"
    /\ UNCHANGED farmer_opponents
    /\ UNCHANGED <<duration_minutes, php_session_id, jar, cookies, farmer_info,
                   farmer_leeks, api, leek_id, end_time, fight_id, start_time, report,
                   last_login>>

\* lines 360 and 403-413: the loop's test fails; the statistics are logged
FinalReport ==
    /\ pc = "loop"
    /\ ~BeforeEnd(now)
    /\ report' = [logged |-> TRUE, fights |-> fight_count, victories |-> victories,
                  defeats |-> fight_count - victories,
                  rate |-> IF fight_count > 0 THEN WinRateTenths(victories, fight_count)
                           ELSE NoRate]
    /\ pc' = "done"
    /\ UNCHANGED farmer_opponents
    /\ UNCHANGED <<now, duration_minutes, php_session_id, jar, cookies, farmer_info,
                   farmer_leeks, api, leek_id, end_time, fight_count, victories, fight_id,
                   start_time, fight_result, last_login, hist>>

Next ==
    \/ SessionLogin
    \/ ApiRequest
    \/ ApiRelogin
    \/ TestApiAccess
    \/ GetLeekName
    \/ LoopIteration
    \/ GetGardenLeekOpponents
    \/ StartGardenFight
    \/ WaitForFightEnd
    \/ GetFightResult
    \/ RecordOutcome
    \/ FinalReport

Spec == Init /\ [][Next]_vars

\* The program runs on: every request is answered and every wait ends
FairSpec == Spec /\ WF_vars(Next)

\* ------------------------------------------------- wait_for_fight_end alone
\* wait_for_fight_end(fight_id) from its call to its return: the state in
\* which the first iteration of a one-minute session calls it, and the
\* actions that run inside it.  The program runs on (weak fairness).
WaitInit ==
    /\ pc = "wait"
    /\ now = 0
    /\ duration_minutes = 1
    /\ php_session_id = "sid"
    /\ jar = TRUE
    /\ cookies = "jar"
    /\ farmer_info = "F1"
    /\ farmer_leeks = "F1"
    /\ api = Idle
    /\ leek_id = DefaultLeek
    /\ end_time = SecondsPerMinute
    /\ fight_count = 0
    /\ victories = 0
    /\ fight_id \in FightIds
    /\ start_time = 0
    /\ fight_result = None
    /\ report = NoReport
    /\ last_login = NoLogin
    /\ hist = [NoHist EXCEPT !.attempted = 1, !.unresolved = 1,
                            !.startup = <<"login", "api", "leeks">>]
    /\ farmer_opponents = "None"

WaitNext ==
    \/ WaitForFightEnd
    \/ ApiRequest
    \/ ApiRelogin
    \/ GetFightResult

WaitSpec == WaitInit /\ [][WaitNext]_vars /\ WF_vars(WaitNext)

\* --------------------------------------------- get_garden_farmer_opponents alone
\* The elements of the list the function returns: a string, or one of the
\* dicts of a response
PyStr(s) == [str |-> s, id |-> NoId, talent |-> NoTalent]

PyDict(o) == [str |-> "", id |-> o.id, talent |-> o.talent]

\* result['opponents'] as a list of such elements
PyDicts(list) == [k \in DOMAIN list |-> PyDict(list[k])]

\* lines 200-202: the list the function returns on the result of its call
FarmerOpponentsIn(result) ==
    IF Truthy(result) /\ HasKey(result, "opponents") THEN <<PyStr("opponents")>>
    ELSE <<>>

\* get_garden_farmer_opponents() called on a freshly constructed LeekWarsBot
\* (lines 8-21): lines 197-198, its make_api_call
FarmerOpponentsInit ==
    /\ pc = "farmer_opponents"
    /\ now = 0
    /\ duration_minutes = 0
    /\ php_session_id = "None"
    /\ jar = FALSE
    /\ cookies = "dict"
    /\ farmer_info = "{}"
    /\ farmer_leeks = "None"
    /\ api = NewCall("garden/get-farmer-opponents", NoId, {}, "GET")
    /\ leek_id = NoId
    /\ end_time = 0
    /\ fight_count = 0
    /\ victories = 0
    /\ fight_id = NoId
    /\ start_time = 0
    /\ fight_result = None
    /\ report = NoReport
    /\ last_login = NoLogin
    /\ hist = NoHist
    /\ farmer_opponents = "None"

\* lines 200-202: the call has returned, and the function returns its list
GetGardenFarmerOpponents ==
    /\ pc = "farmer_opponents"
    /\ api.state = "returned"
    /\ farmer_opponents' = FarmerOpponentsIn(api.result)
    /\ pc' = "farmer_opponents_returned"
    /\ UNCHANGED <<now, duration_minutes, php_session_id, jar, cookies, farmer_info,
                   farmer_leeks, api, leek_id, end_time, fight_count, victories, fight_id,
                   start_time, fight_result, report, last_login, hist>>

FarmerOpponentsNext ==
    \/ ApiRequest
    \/ ApiRelogin
    \/ GetGardenFarmerOpponents

FarmerOpponentsSpec == FarmerOpponentsInit /\ [][FarmerOpponentsNext]_vars

\* ------------------------------------------------------------------- claims
\* C1 (as claimed): one make_api_call invocation issues at most 2 requests to
\* its endpoint and at most 1 login: a 401 is followed by one login() and one
\* re-issue, and a second 401 by None without any further login or request.
C1_AtMostOneRetry == api.reqs <= 2 /\ api.logins <= 1

\* C2 (as claimed): inside the fight loop no API failure (a call that comes
\* back with no result or with an error body) ends the session abnormally:
\* the step that consumes the failed call never leaves through an exception.
C2_FailureNeverAborts ==
    [][(api.state = "returned" /\ api.result.kind \in {"None", "error"}
            /\ pc \in {"opponents", "start_fight", "poll"})
        => pc' # "raised"]_vars

\* C3 (as claimed): in an iteration whose opponent list is empty the loop
\* issues a start-fight request for the leek with no specific target.
C3_EmptyListStartsAutomaticFight ==
    [][(pc = "opponents" /\ api.state = "returned"
            /\ (api.result.kind \in {"opponents", "leeks"} => api.result.list = <<>>))
        => (/\ pc' = "start_fight"
            /\ api'.state = "request"
            /\ api'.path = "garden/start-solo-fight"
            /\ <<"leek_id", leek_id>> \in api'.params
            /\ \A kv \in api'.params : kv[1] = "target_id" => kv[2] = NoId)]_vars

\* C4 (as claimed): after every login() call, login returned True when the
\* response was a 200 with a JSON body and the PHPSESSID cookie is among the
\* session's cookies, and returned False whenever no PHPSESSID cookie is
\* among them after the request, whatever earlier logins returned.
C4_LoginFollowsCookie ==
    last_login.called =>
        /\ (last_login.read /\ jar) => last_login.ret
        /\ ~jar => ~last_login.ret

\* C5: at most one started fight is unresolved at any time, and none is while
\* a start-fight call is in progress: every fight started before has been
\* seen finished by a poll or had its polling time out.
C5_OneActiveFight ==
    /\ hist.unresolved <= 1
    /\ pc = "start_fight" => hist.unresolved = 0

\* C5 witness: a start-fight call in progress after an earlier fight was started
C5_Witness ==
    pc = "start_fight" /\ api.state = "request" /\ hist.attempted >= 1
    /\ hist.unresolved = 0

\* C6: when wait_for_fight_end has returned it has polled at least once; it
\* returns a fight info exactly when a poll was answered with status
\* "finished", "end" or 2, that info has such a status, and no poll is made or
\* awaited once one was answered so.
C6_ReturnsAtFirstFinishedPoll ==
    /\ pc = "record" =>
        /\ hist.polls >= 1
        /\ Truthy(fight_result) <=> hist.seenEnd
        /\ Truthy(fight_result) =>
              /\ fight_result.kind = "info"
              /\ fight_result.status \in {"finished", "end", "int2"}
    /\ pc \in {"wait", "poll"} => ~hist.seenEnd

\* C6 witness: the wait returned a finished fight at its second poll or later
C6_Witness == pc = "record" /\ Truthy(fight_result) /\ hist.polls >= 2

\* C7: wait_for_fight_end always terminates.  A poll answered with anything
\* but a finished fight (a running, in-progress or unrecognized status, or no
\* result) is followed by a wait of 5 and the loop's test; inside max_wait the
\* test is followed by another poll, past max_wait by the return of None; and
\* the wait eventually returns.
C7_WaitTerminates ==
    /\ [][(pc = "poll" /\ api.state = "returned"
             /\ ~(api.result.kind \in {"fight", "info"}
                  /\ api.result.status \in {"finished", "end", "int2"}))
          => (pc' = "wait" /\ now' = now + 5)]_vars
    /\ [][(pc = "wait" /\ now - start_time < MaxWait)
          => (pc' = "poll" /\ api'.state = "request" /\ api'.path = "fight/get")]_vars
    /\ [][(pc = "wait" /\ now - start_time >= MaxWait)
          => (pc' = "record" /\ fight_result' = None)]_vars
    /\ <>(pc = "record")

\* C7 witness: the wait gave up after max_wait, having polled more than once
C7_Witness ==
    pc = "record" /\ ~Truthy(fight_result) /\ hist.polls >= 2 /\ now >= MaxWait

\* the fights of hist.results whose winner field was exactly 1
WonIn(results) == Cardinality({i \in DOMAIN results : results[i]})

\* C8: 0 <= victories <= fight_count always; between two iterations and at
\* the end fight_count is the number of fights a poll reported finished and
\* victories the number of those whose winner field was exactly 1 (every
\* other one, winner absent, 0 or 2, is a defeat); and after the outcomes win,
\* loss, win the report is 3 fights, 2 victories, 1 defeat, 66.7 %.
C8_CountersMatchOutcomes ==
    /\ 0 <= victories /\ victories <= fight_count
    /\ hist.completed = Len(hist.results)
    /\ pc \in {"loop", "opponents", "start_fight", "wait", "poll", "raised", "done"} =>
        /\ fight_count = hist.completed
        /\ victories = WonIn(hist.results)
    /\ pc = "done" =>
        /\ report.logged
        /\ report.victories = WonIn(hist.results)
        /\ report.defeats = Len(hist.results) - WonIn(hist.results)
    /\ (pc = "done" /\ hist.results = <<TRUE, FALSE, TRUE>>) =>
        report = [logged |-> TRUE, fights |-> 3, victories |-> 2, defeats |-> 1,
                  rate |-> 667]

\* C8 witness: the session ended after the outcomes win, loss, win
C8_Witness == pc = "done" /\ hist.results = <<TRUE, FALSE, TRUE>>

\* C9 (as claimed): the fight total of the final report is the number of
\* fights for which start-fight returned an identifier, and the reported
\* victories and defeats add up to it.
C9_ReportCountsAttempts ==
    pc = "done" =>
        /\ report.fights = hist.attempted
        /\ report.victories + report.defeats = report.fights

\* C9 (amended): the fight total of the final report is the number of fights
\* a poll reported finished, which is at most the number of fights for which
\* start-fight returned an identifier (a fight whose polling timed out is not
\* counted), and the reported victories and defeats add up to it.
C9_ReportCountsFinishedFights ==
    pc = "done" =>
        /\ report.fights = hist.completed
        /\ report.fights <= hist.attempted
        /\ report.victories + report.defeats = report.fights

\* C9 witness: a report after a session with a finished and a timed-out fight
C9_Witness == pc = "done" /\ report.fights >= 1 /\ hist.attempted > report.fights

\* the talent an opponent ranks with
RankOf(o) == IF o.talent = NoTalent THEN 999999 ELSE o.talent

\* C10: while the start-fight request of an iteration with a non-empty
\* opponent list is about to be sent, its target_id is the id of an opponent
\* of the list whose talent (999999 without a talent field) is at most that
\* of every other, the first such in list order; for talents [50, 10, 30] it
\* is the opponent with talent 10.
C10_TargetsWeakest ==
    hist.offered # <<>> =>
        /\ pc = "start_fight" /\ api.state = "request" /\ api.reqs = 0
        /\ api.path = "garden/start-solo-fight"
        /\ \E i \in DOMAIN hist.offered :
              /\ api.params = {<<"leek_id", leek_id>>, <<"target_id", hist.offered[i].id>>}
              /\ \A j \in DOMAIN hist.offered :
                    /\ RankOf(hist.offered[i]) <= RankOf(hist.offered[j])
                    /\ RankOf(hist.offered[j]) = RankOf(hist.offered[i]) => i <= j
        /\ [k \in DOMAIN hist.offered |-> hist.offered[k].talent] = <<50, 10, 30>>
              => \E i \in DOMAIN hist.offered :
                    /\ hist.offered[i].talent = 10
                    /\ <<"target_id", hist.offered[i].id>> \in api.params

\* C10 witness: the request for the list with talents [50, 10, 30]
C10_Witness ==
    /\ pc = "start_fight" /\ api.state = "request"
    /\ Len(hist.offered) = 3
    /\ [k \in DOMAIN hist.offered |-> hist.offered[k].talent] = <<50, 10, 30>>
    /\ <<"target_id", 2>> \in api.params

\* C11: with a session duration of 0 minutes the loop runs no iteration: the
\* session is never at an opponent fetch, a start-fight call, a poll or the
\* recording of an outcome, no fight is started, fight_count and victories
\* stay 0, and the report is logged with no win rate computed (no division by
\* fight_count).
C11_ZeroDurationZeroFights ==
    duration_minutes = 0 =>
        /\ pc \in {"login", "test_api", "leek_name", "loop", "done", "failed"}
        /\ api.path \notin {"garden/get-leek-opponents", "garden/start-solo-fight",
                            "fight/get"}
        /\ fight_count = 0 /\ victories = 0
        /\ hist.attempted = 0 /\ hist.polls = 0
        /\ pc = "done" =>
              report = [logged |-> TRUE, fights |-> 0, victories |-> 0, defeats |-> 0,
                        rate |-> NoRate]

\* C11 witness: the report of a session of 0 minutes
C11_Witness == duration_minutes = 0 /\ pc = "done" /\ report.logged

\* C12: in every make_api_call invocation, first request or re-issued one, a
\* response with status 429 is followed by the cooldown of RateLimitCooldown
\* and the result None: the invocation returns with that response, without a
\* login, and takes no further step (no request, no login) afterwards.
C12_RateLimitEndsInvocation ==
    [][/\ (api.state = "request" /\ ~api'.resp.exc /\ api'.resp.status = 429)
            => /\ now' = now + RateLimitCooldown
               /\ api'.state = "returned"
               /\ api'.result = None
               /\ api'.reqs = api.reqs + 1
               /\ api'.logins = api.logins
               /\ UNCHANGED <<php_session_id, jar, cookies, farmer_info, last_login>>
       /\ (api.state = "returned" /\ api.resp.status = 429)
            => (api'.reqs = 0 /\ api'.logins = 0) \/ api' = api]_vars

\* C12 witness: a request re-issued after a re-login was answered 429
C12_Witness ==
    /\ api.state = "returned"
    /\ api.depth >= 1 /\ api.logins >= 1 /\ api.reqs >= 2
    /\ ~api.resp.exc /\ api.resp.status = 429
    /\ api.result = None

\* C13: make_api_call never raises, and its result follows the class of the
\* answer: a 200 with valid JSON returns the parsed body; a 200 with invalid
\* JSON, a status other than 200, 401 and 429, and a transport exception each
\* return None at that request (the only one when it is the invocation's
\* first), with no wait, no login and no change to the authentication state.
C13_ResultFollowsOutcomeClass ==
    [][api.state = "request"
        => /\ pc' = pc
           /\ api'.reqs = api.reqs + 1
           /\ IF ~api'.resp.exc /\ api'.resp.status = 200 /\ api'.resp.json
              THEN /\ api'.state = "returned"
                   /\ api'.result = api'.resp.body
              ELSE (api'.resp.exc \/ api'.resp.status \notin {401, 429})
                   => /\ api'.state = "returned"
                      /\ api'.result = None
                      /\ api'.logins = api.logins
                      /\ api.depth = 0 => (api'.reqs = 1 /\ api'.logins = 0)
                      /\ now' = now
                      /\ UNCHANGED <<php_session_id, jar, cookies, farmer_info,
                                     last_login>>]_vars

\* C13 witness: a 200 whose body is not JSON ended an invocation at its only
\* request
C13_Witness ==
    /\ api.state = "returned"
    /\ api.reqs = 1 /\ api.logins = 0
    /\ ~api.resp.exc /\ api.resp.status = 200 /\ ~api.resp.json
    /\ api.result = None

StartupDone == <<"login", "api", "leeks">>

\* C14: the session issues no opponent fetch and no start-fight request, and
\* is nowhere in or after the loop, unless login() returned True, then
\* farmer/get-from-token answered with a farmer key, then the farmer had a
\* leek, in that order; when one of them fails the session returns False
\* with fight_count 0, no fight started and no report.
C14_LoopOnlyAfterStartup ==
    /\ hist.startup \in {<<>>, <<"login">>, <<"login", "api">>, StartupDone}
    /\ api.path \in {"garden/get-leek-opponents", "garden/start-solo-fight", "fight/get"}
          => hist.startup = StartupDone
    /\ hist.startup # StartupDone
          => /\ pc \in {"login", "test_api", "failed"}
             /\ fight_count = 0 /\ victories = 0 /\ hist.attempted = 0
             /\ ~report.logged
    /\ pc = "failed" => hist.startup # StartupDone
    /\ pc = "test_api" => hist.startup = <<"login">>
    /\ pc = "login" => hist.startup = <<>>

\* C14 witness: the session returned False because the farmer has no leek
C14_Witness == pc = "failed" /\ hist.startup = <<"login", "api">>

\* C15: when start_garden_fight returns no fight identifier the counters
\* are left alone, no poll is made, and the loop goes round after a wait of
\* FailedStartDelay, followed by the delay between fights only if the
\* session's end has not been reached after that wait.
C15_FailedStartWaits ==
    [][(pc = "start_fight" /\ api.state = "returned" /\ api.result.kind # "fight_id")
        => /\ fight_count' = fight_count
           /\ victories' = victories
           /\ pc' = "loop"
           /\ api' = Idle
           /\ hist'.polls = hist.polls /\ hist'.attempted = hist.attempted
           /\ now' = now + FailedStartDelay
                       + (IF now + FailedStartDelay < end_time
                          THEN DelayBetweenFights ELSE 0)]_vars

\* C15 witness: the first iteration's start-fight call gave no identifier,
\* and the loop is back at its test after both waits
C15_Witness ==
    /\ pc = "loop"
    /\ hist.attempted = 0
    /\ fight_count = 0
    /\ now = FailedStartDelay + DelayBetweenFights

\* C16 (as claimed): a session that passed its startup and can take no
\* further step has left the loop through its test and logged the report.
C16_SessionEndsWithReport ==
    (hist.startup = StartupDone /\ ~ENABLED Next) => (pc = "done" /\ report.logged)

\* C17: after a 401 the invocation logs in once; when the login succeeded it
\* waits ReloginDelay and (unless the recursion limit is hit, which gives
\* None) re-issues its request with the same endpoint, parameters and method;
\* when the login failed it returns None with no wait and no further request.
\* A re-issued request is always preceded by a successful login.
C17_ReissueOnlyAfterRelogin ==
    [][/\ api.state = "relogin"
            => /\ api'.logins = api.logins + 1
               /\ api'.reqs = api.reqs
               /\ last_login'.called
               /\ IF last_login'.ret
                  THEN /\ now' = now + ReloginDelay
                       /\ IF api.depth < RecursionLimit
                          THEN /\ api'.state = "request"
                               /\ api'.depth = api.depth + 1
                               /\ <<api'.path, api'.id, api'.params, api'.method, api'.verb>>
                                    = <<api.path, api.id, api.params, api.method, api.verb>>
                          ELSE api'.state = "returned" /\ api'.result = None
                  ELSE /\ now' = now
                       /\ api'.state = "returned"
                       /\ api'.result = None
       /\ (api.state = "request" /\ api.reqs > 0)
            => (last_login.called /\ last_login.ret /\ api.resp.status = 401)]_vars

\* C17 witness: the start-fight request is about to be re-issued after a 401
\* and a successful re-login
C17_Witness ==
    /\ api.state = "request"
    /\ api.path = "garden/start-solo-fight"
    /\ api.depth = 1 /\ api.reqs = 1 /\ api.logins = 1
    /\ last_login.ret
    /\ \E t \in 1..MaxOpps : <<"target_id", t>> \in api.params

\* C18 (as claimed): no start-fight request is issued at a clock value at or
\* after the session's end.
C18_NoStartAtOrAfterEnd ==
    (pc = "start_fight" /\ api.state = "request") => now < end_time

\* C18: every request of the opponent fetch and of the start-fight call
\* belongs to an iteration whose test passed before the session's end, and is
\* issued later than that test by ReloginDelay for each successful re-login
\* since, and by nothing else (a cooldown always ends the call); the first
\* request of the opponent fetch is issued before the session's end.
C18_StartFollowsTestByRelogins ==
    (pc \in {"opponents", "start_fight"} /\ api.state = "request")
        => /\ hist.checked < end_time
           /\ now = hist.checked + ReloginDelay * hist.retries
           /\ (pc = "opponents" /\ api.reqs = 0) => now < end_time

\* C18 witness: a start-fight request about to be issued at or after the end
C18_Witness ==
    /\ pc = "start_fight" /\ api.state = "request"
    /\ now >= end_time
    /\ hist.checked < end_time
    /\ hist.retries >= 1

\* C19 (as claimed): once the initial login is over nothing changes
\* farmer_info.
C19_FarmerInfoSetOnce == [][pc # "login" => farmer_info' = farmer_info]_vars

\* C19: farmer_info changes only inside login(), the initial one or the
\* re-login that follows a 401, and only to the farmer of a login response
\* that is a 200 with a JSON body; farmer_leeks, once set by get_leeks, never
\* changes.
C19_FarmerInfoSetByLogins ==
    [][/\ farmer_info' # farmer_info
            => /\ pc = "login" \/ api.state = "relogin"
               /\ last_login'.called /\ last_login'.read
               /\ farmer_info' \in Farmers
       /\ farmer_leeks # "None" => farmer_leeks' = farmer_leeks]_vars

\* C19 witness: a re-login replaced the farmer_info from which get_leeks took
\* the leeks
C19_Witness ==
    /\ farmer_leeks = "F1"
    /\ farmer_info = "F0"
    /\ last_login.called /\ last_login.read
    /\ pc \in {"opponents", "start_fight", "poll"}

\* C20: start_garden_fight returns the fight identifier exactly when the body
\* has a fight key and None otherwise; a body with an error code (the two
\* named ones like any other) ends the call at the request it answers, with
\* no login and no retry, and leaves the cookies and the authentication
\* state alone.
C20_FightIdIffFightKey ==
    [][/\ (pc = "start_fight" /\ api.state = "returned")
            => /\ fight_id' = IF api.result.kind = "fight_id" THEN api.result.fight
                              ELSE NoId
               /\ pc' = IF api.result.kind = "fight_id" THEN "wait" ELSE "loop"
               /\ api' = Idle
               /\ UNCHANGED <<php_session_id, jar, cookies, farmer_info>>
       /\ (pc = "start_fight" /\ api.state = "request" /\ api'.resp.body.kind = "error")
            => /\ api'.state = "returned"
               /\ api'.result = api'.resp.body
               /\ api'.reqs = api.reqs + 1
               /\ api'.logins = api.logins
               /\ now' = now
               /\ UNCHANGED <<php_session_id, jar, cookies, farmer_info, last_login>>]_vars

\* C20 witness: start_garden_fight returned None on a wrong_token body
C20_Witness ==
    /\ pc = "start_fight"
    /\ api.state = "returned"
    /\ api.result.kind = "error" /\ api.result.error = "wrong_token"
    /\ api.reqs = 1 /\ api.logins = 0
    /\ FightIdIn(api.result) = NoId

\* C21 (as claimed): when its call has returned, get_garden_farmer_opponents
\* returns the list under the opponents key of the response when the
\* response has that key, and the empty list otherwise.
C21_ReturnsOpponentsOfResponse ==
    pc = "farmer_opponents_returned"
        => farmer_opponents = IF api.result.kind = "opponents"
                              THEN PyDicts(api.result.list)
                              ELSE <<>>

====
